---- MODULE Spec2Model ----
(***************************************************************************)
(* Model of evs-backend/server.js: an express server in front of one       *)
(* PostgreSQL database with two tables, users and votes.  Every handler is *)
(* an async function; each await is a point where other requests run, so   *)
(* a handler is one action per segment between awaits.                     *)
(*                                                                         *)
(* The votes table's voted_at column (DEFAULT CURRENT_TIMESTAMP) is never  *)
(* read by the server and is left out of the rows.                         *)
(*                                                                         *)
(* The tables outlive the server process: a restart loses the handlers in  *)
(* flight and the pool, and keeps the rows.                                *)
(***************************************************************************)
EXTENDS Integers, Sequences, FiniteSets, TLC

\* Number of HTTP requests a behaviour issues.
MaxReq == 3

Reqs == 1..MaxReq

\* JSON value of a field the request body does not carry (JS undefined).
Undefined == "undefined"

\* Values a client can send as nationalId / userId, password and candidate:
\* two proper values each, an empty string and an absent field.
NationalIds == {"", "id1", "id2"}
Passwords == {Undefined, "pw1", "pw2"}
CandidateNames == {Undefined, "A", "B"}

\* The salt bcrypt.hash generates in request r: a fresh one for every call.
GenSalt(r) == r

\* server.js:63
saltRounds == 10

\* Mutant: the validation tests for an absent field only (=== undefined).
Falsy_AbsentOnly(v) == v = Undefined

\* JS truthiness of a request field, as used by `!nationalId` etc.
Falsy(v) == v = "" \/ v = Undefined

----------------------------------------------------------------------------
\* bcrypt

NoHash == [rounds |-> 0, salt |-> 0, digest |-> <<>>]

\* bcrypt.hash(password, saltRounds) with the salt it drew.
BcryptHash(password, rounds, salt) ==
    [rounds |-> rounds, salt |-> salt, digest |-> <<rounds, salt, password>>]

\* bcrypt.compare(password, hash): re-hash with the stored salt and cost.
BcryptCompare(password, hash) ==
    BcryptHash(password, hash.rounds, hash.salt).digest = hash.digest

----------------------------------------------------------------------------
\* Response messages (a message is a sequence of string pieces).

MsgRequired == <<"National ID and password are required.">>
MsgRegistered == <<"National ID already registered.">>
MsgRegisterOk == <<"Registration successful. You can now log in.">>
MsgRegisterErr == <<"An unexpected error occurred during registration.">>
\* Mutant: the not-found answer names its cause.
MsgInvalidNotFound_Leaky == <<"National ID not registered.">>
MsgInvalidNotFound == <<"Invalid National ID or password.">>
MsgInvalidMismatch == <<"Invalid National ID or password.">>
MsgAlreadyVoted == <<"You have already voted.">>
MsgLoginOk == <<"Login successful!">>
MsgLoginErr == <<"An unexpected error occurred during login.">>
MsgVoteRequired == <<"User ID (National ID) and candidate are required.">>
MsgVoteOk(candidate) == <<"Vote for ", candidate, " submitted successfully!">>
MsgVoteErr == <<"An unexpected error occurred while submitting the vote.">>
MsgResultsErr == <<"An unexpected error occurred while fetching results.">>
NoMsg == <<>>

----------------------------------------------------------------------------
VARIABLES
    users,   \* table users: sequence of rows, in insertion order
    votes,   \* table votes: sequence of rows, in insertion order
    startup, \* the pool.connect() of the module's top level: "pending"/"connected"
    pool,    \* number of clients checked out of the pool and not released
    reqs     \* the HTTP requests: handler position, locals and response
             \*   a, b     the two body fields (nationalId/userId, password/candidate)
             \*   nrows    rows.length of the handler's first SELECT (-1: no result)
             \*   hash     hashedPassword (register), user.password_hash (login)
             \*   sawVote  login's voteCheckResult.rows.length > 0
             \*   queries  number of pool.query calls the handler has made
             \*   fault    why a query of this request rejected: "query" (the
             \*            storage failed) or "constraint" (PRIMARY KEY violation)

vars == <<users, votes, startup, pool, reqs>>

Range(s) == {s[i] : i \in 1..Len(s)}

\* SELECT national_id[, password_hash] FROM users WHERE national_id = $1
SelectUsers(id) == SelectSeq(users, LAMBDA row : row.national_id = id)

\* SELECT user_id FROM votes WHERE user_id = $1
SelectVotes(id) == SelectSeq(votes, LAMBDA row : row.user_id = id)

\* Mutant: users without its PRIMARY KEY.
UsersKeyFree_NoKey(id) == TRUE

\* PRIMARY KEY of users: an insert of an existing national_id is rejected.
UsersKeyFree(id) == \A i \in 1..Len(users) : users[i].national_id # id

\* Mutant: votes without its PRIMARY KEY.
VotesKeyFree_NoKey(id) == TRUE

\* PRIMARY KEY of votes: an insert of an existing user_id is rejected.
VotesKeyFree(id) == \A i \in 1..Len(votes) : votes[i].user_id # id

NoReq == [kind |-> "none", pc |-> "idle", a |-> "", b |-> "",
          nrows |-> -1, hash |-> NoHash, isMatch |-> FALSE, sawVote |-> FALSE,
          queries |-> 0, status |-> 0, message |-> NoMsg, body |-> <<>>,
          fault |-> "none", pred |-> {}]

\* Requests that have been answered.
Done == {r \in Reqs : reqs[r].pc = "done"}

\* res.status(s).json({message: m, ...body}) ends the handler.
Respond(r, s, m, body) ==
    [reqs[r] EXCEPT !.pc = "done", !.status = s, !.message = m, !.body = body]

\* A request arrives: requests are numbered in order of arrival.
Arrives(r) ==
    /\ reqs[r].pc = "idle"
    /\ \A q \in Reqs : q < r => reqs[q].pc # "idle"

\* pred: the requests for the same operation and identity that had been
\* answered when this one arrived.
Arrived(r, kind, a, b) ==
    [NoReq EXCEPT !.kind = kind, !.a = a, !.b = b,
                  !.pred = {q \in Done : reqs[q].kind = kind /\ reqs[q].a = a}]

\* pool.connect() hands out a client; client.release() returns it.
Acquire(n) == n + 1
Release(n) == n - 1

\* pool.query(text, values): the pool takes a client, runs the statement on
\* it and releases it whether the statement resolved or rejected.
PoolQuery(n) == Release(Acquire(n))

\* Request r after one more pool.query call.
Queried(q) == [q EXCEPT !.queries = @ + 1]

\* The process has just evaluated the module: the tables exist and are
\* empty, the startup pool.connect() is pending, the server listens.
InitLife ==
    /\ users = <<>>
    /\ votes = <<>>
    /\ startup = "pending"
    /\ pool = 0
    /\ reqs = [r \in Reqs |-> NoReq]

\* The same, once the startup pool.connect() has resolved.
Init ==
    /\ users = <<>>
    /\ votes = <<>>
    /\ startup = "connected"
    /\ pool = Acquire(0)
    /\ reqs = [r \in Reqs |-> NoReq]

----------------------------------------------------------------------------
\* Process start and restart

\* Mutant: the start of the process creates the tables anew (DROP TABLE
\* before CREATE TABLE).
Restarted_DropsTables ==
    /\ startup' = "pending"
    /\ pool' = 0
    /\ reqs' = [r \in Reqs |->
          IF reqs[r].pc \in {"idle", "done", "aborted"} THEN reqs[r]
          ELSE [NoReq EXCEPT !.kind = reqs[r].kind, !.a = reqs[r].a, !.b = reqs[r].b,
                             !.pred = reqs[r].pred, !.pc = "aborted"]]
    /\ users' = <<>>
    /\ votes' = <<>>

\* The server process ends (crash, deploy, process.exit) and is started
\* again: the handlers in flight never answer, the new process has a new
\* pool and runs the top level again; the tables stay (CREATE TABLE IF NOT
\* EXISTS).
Restarted ==
    /\ startup' = "pending"
    /\ pool' = 0
    /\ reqs' = [r \in Reqs |->
          IF reqs[r].pc \in {"idle", "done", "aborted"} THEN reqs[r]
          ELSE [NoReq EXCEPT !.kind = reqs[r].kind, !.a = reqs[r].a, !.b = reqs[r].b,
                             !.pred = reqs[r].pred, !.pc = "aborted"]]
    /\ UNCHANGED <<users, votes>>

Restart == Restarted

\* pool.connect().then(...).catch(...): on success the client it resolves
\* to is dropped without release(); on failure process.exit(1).
StartupConnect(ok) ==
    /\ startup = "pending"
    /\ IF ok
       THEN /\ startup' = "connected"
            /\ pool' = Acquire(pool)
            /\ UNCHANGED <<users, votes, reqs>>
       ELSE Restarted

----------------------------------------------------------------------------
\* POST /register

RegisterStart(r, nationalId, password) ==
    /\ Arrives(r)
    /\ LET q == Arrived(r, "register", nationalId, password) IN
       reqs' = [reqs EXCEPT ![r] =
          IF Falsy(nationalId) \/ Falsy(password)
          THEN [q EXCEPT !.pc = "done", !.status = 400, !.message = MsgRequired]
          ELSE [q EXCEPT !.pc = "reg_check"]]
    /\ UNCHANGED <<users, votes, startup, pool>>

\* Mutant: the handler goes to the insert without looking at the rows.
RegisterCheck_NoCheck(r, ok) ==
    /\ reqs[r].pc = "reg_check"
    /\ reqs' = [reqs EXCEPT ![r] = Queried(
          IF ~ok
          THEN [Respond(r, 500, MsgRegisterErr, <<>>) EXCEPT !.fault = "query"]
          ELSE [reqs[r] EXCEPT !.pc = "reg_hash", !.nrows = 0])]
    /\ pool' = PoolQuery(pool)
    /\ UNCHANGED <<users, votes, startup>>

RegisterCheck(r, ok) ==
    /\ reqs[r].pc = "reg_check"
    /\ reqs' = [reqs EXCEPT ![r] = Queried(
          IF ~ok
          THEN [Respond(r, 500, MsgRegisterErr, <<>>) EXCEPT !.fault = "query"]
          ELSE IF Len(SelectUsers(reqs[r].a)) > 0
          THEN [Respond(r, 409, MsgRegistered, <<>>) EXCEPT
                   !.nrows = Len(SelectUsers(reqs[r].a))]
          ELSE [reqs[r] EXCEPT !.pc = "reg_hash", !.nrows = 0])]
    /\ pool' = PoolQuery(pool)
    /\ UNCHANGED <<users, votes, startup>>

RegisterHash(r) ==
    /\ reqs[r].pc = "reg_hash"
    /\ reqs' = [reqs EXCEPT ![r] =
          [reqs[r] EXCEPT !.pc = "reg_insert",
                          !.hash = BcryptHash(reqs[r].b, saltRounds, GenSalt(r))]]
    /\ UNCHANGED <<users, votes, startup, pool>>

\* Mutant: INSERT ... ON CONFLICT (national_id) DO UPDATE: a registration of
\* an existing identity replaces its hash and is answered 201.
RegisterInsert_Upsert(r, outcome) ==
    /\ reqs[r].pc = "reg_insert"
    /\ LET id == reqs[r].a
           row == [national_id |-> id, password_hash |-> reqs[r].hash]
           runs == outcome \in {"ok", "lost"}
       IN  /\ users' = IF ~runs THEN users
                       ELSE IF UsersKeyFree(id) THEN Append(users, row)
                       ELSE [i \in 1..Len(users) |->
                                IF users[i].national_id = id THEN row ELSE users[i]]
           /\ reqs' = [reqs EXCEPT ![r] = Queried(
                 IF outcome = "ok"
                 THEN Respond(r, 201, MsgRegisterOk, <<>>)
                 ELSE [Respond(r, 500, MsgRegisterErr, <<>>) EXCEPT !.fault = "query"])]
    /\ pool' = PoolQuery(pool)
    /\ UNCHANGED <<votes, startup>>

\* INSERT INTO users.  outcome "ok": the statement runs, and the PRIMARY KEY
\* decides whether the row goes in or the query rejects; "fail": the query
\* rejects before the statement runs; "lost": the statement runs but the
\* connection breaks before its result arrives, so the query rejects.
RegisterInsert(r, outcome) ==
    /\ reqs[r].pc = "reg_insert"
    /\ LET id == reqs[r].a
           row == [national_id |-> id, password_hash |-> reqs[r].hash]
           runs == outcome \in {"ok", "lost"}
           inserted == runs /\ UsersKeyFree(id)
       IN  /\ users' = IF inserted THEN Append(users, row) ELSE users
           /\ reqs' = [reqs EXCEPT ![r] = Queried(
                 IF outcome = "ok" /\ inserted
                 THEN Respond(r, 201, MsgRegisterOk, <<>>)
                 ELSE [Respond(r, 500, MsgRegisterErr, <<>>) EXCEPT
                          !.fault = IF outcome = "ok" THEN "constraint" ELSE "query"])]
    /\ pool' = PoolQuery(pool)
    /\ UNCHANGED <<votes, startup>>

----------------------------------------------------------------------------
\* POST /login

LoginStart(r, nationalId, password) ==
    /\ Arrives(r)
    /\ LET q == Arrived(r, "login", nationalId, password) IN
       reqs' = [reqs EXCEPT ![r] =
          IF Falsy(nationalId) \/ Falsy(password)
          THEN [q EXCEPT !.pc = "done", !.status = 400, !.message = MsgRequired]
          ELSE [q EXCEPT !.pc = "login_find"]]
    /\ UNCHANGED <<users, votes, startup, pool>>

LoginFind(r, ok) ==
    /\ reqs[r].pc = "login_find"
    /\ LET result == SelectUsers(reqs[r].a) IN
       reqs' = [reqs EXCEPT ![r] = Queried(
          IF ~ok
          THEN [Respond(r, 500, MsgLoginErr, <<>>) EXCEPT !.fault = "query"]
          ELSE IF Len(result) = 0
          THEN [Respond(r, 401, MsgInvalidNotFound, <<>>) EXCEPT !.nrows = 0]
          ELSE [reqs[r] EXCEPT !.pc = "login_compare", !.nrows = Len(result),
                               !.hash = result[1].password_hash])]
    /\ pool' = PoolQuery(pool)
    /\ UNCHANGED <<users, votes, startup>>

LoginCompare(r) ==
    /\ reqs[r].pc = "login_compare"
    /\ reqs' = [reqs EXCEPT ![r] =
          IF BcryptCompare(reqs[r].b, reqs[r].hash)
          THEN [reqs[r] EXCEPT !.pc = "login_votecheck", !.isMatch = TRUE]
          ELSE Respond(r, 401, MsgInvalidMismatch, <<>>)]
    /\ UNCHANGED <<users, votes, startup, pool>>

\* Mutant: the login answers 200 whether or not a vote row was found.
LoginVoteCheck_NoBlock(r, ok) ==
    /\ reqs[r].pc = "login_votecheck"
    /\ reqs' = [reqs EXCEPT ![r] = Queried(
          IF ~ok
          THEN [Respond(r, 500, MsgLoginErr, <<>>) EXCEPT !.fault = "query"]
          ELSE [Respond(r, 200, MsgLoginOk, <<reqs[r].a>>) EXCEPT
                   !.sawVote = Len(SelectVotes(reqs[r].a)) > 0])]
    /\ pool' = PoolQuery(pool)
    /\ UNCHANGED <<users, votes, startup>>

LoginVoteCheck(r, ok) ==
    /\ reqs[r].pc = "login_votecheck"
    /\ LET voted == Len(SelectVotes(reqs[r].a)) > 0 IN
       reqs' = [reqs EXCEPT ![r] = Queried(
          IF ~ok
          THEN [Respond(r, 500, MsgLoginErr, <<>>) EXCEPT !.fault = "query"]
          ELSE IF voted
          THEN [Respond(r, 403, MsgAlreadyVoted, <<>>) EXCEPT !.sawVote = TRUE]
          ELSE Respond(r, 200, MsgLoginOk, <<reqs[r].a>>))]
    /\ pool' = PoolQuery(pool)
    /\ UNCHANGED <<users, votes, startup>>

----------------------------------------------------------------------------
\* POST /vote

VoteStart(r, userId, candidate) ==
    /\ Arrives(r)
    /\ LET q == Arrived(r, "vote", userId, candidate) IN
       reqs' = [reqs EXCEPT ![r] =
          IF Falsy(userId) \/ Falsy(candidate)
          THEN [q EXCEPT !.pc = "done", !.status = 400, !.message = MsgVoteRequired]
          ELSE [q EXCEPT !.pc = "vote_check"]]
    /\ UNCHANGED <<users, votes, startup, pool>>

\* Mutant: a rejected SELECT is answered as "already voted".
VoteCheck_FaultAs409(r, ok) ==
    /\ reqs[r].pc = "vote_check"
    /\ reqs' = [reqs EXCEPT ![r] = Queried(
          IF ~ok
          THEN [Respond(r, 409, MsgAlreadyVoted, <<>>) EXCEPT !.fault = "query"]
          ELSE IF Len(SelectVotes(reqs[r].a)) > 0
          THEN [Respond(r, 409, MsgAlreadyVoted, <<>>) EXCEPT
                   !.nrows = Len(SelectVotes(reqs[r].a))]
          ELSE [reqs[r] EXCEPT !.pc = "vote_insert", !.nrows = 0])]
    /\ pool' = PoolQuery(pool)
    /\ UNCHANGED <<users, votes, startup>>

VoteCheck(r, ok) ==
    /\ reqs[r].pc = "vote_check"
    /\ reqs' = [reqs EXCEPT ![r] = Queried(
          IF ~ok
          THEN [Respond(r, 500, MsgVoteErr, <<>>) EXCEPT !.fault = "query"]
          ELSE IF Len(SelectVotes(reqs[r].a)) > 0
          THEN [Respond(r, 409, MsgAlreadyVoted, <<>>) EXCEPT
                   !.nrows = Len(SelectVotes(reqs[r].a))]
          ELSE [reqs[r] EXCEPT !.pc = "vote_insert", !.nrows = 0])]
    /\ pool' = PoolQuery(pool)
    /\ UNCHANGED <<users, votes, startup>>

\* Mutant: INSERT ... ON CONFLICT (user_id) DO UPDATE: a later vote replaces
\* the candidate of the identity's row.
VoteInsert_Upsert(r, outcome) ==
    /\ reqs[r].pc = "vote_insert"
    /\ LET id == reqs[r].a
           row == [user_id |-> id, candidate_name |-> reqs[r].b]
           runs == outcome \in {"ok", "lost"}
       IN  /\ votes' = IF ~runs THEN votes
                       ELSE IF VotesKeyFree(id) THEN Append(votes, row)
                       ELSE [i \in 1..Len(votes) |->
                                IF votes[i].user_id = id THEN row ELSE votes[i]]
           /\ reqs' = [reqs EXCEPT ![r] = Queried(
                 IF outcome = "ok"
                 THEN Respond(r, 200, MsgVoteOk(reqs[r].b), <<>>)
                 ELSE [Respond(r, 500, MsgVoteErr, <<>>) EXCEPT !.fault = "query"])]
    /\ pool' = PoolQuery(pool)
    /\ UNCHANGED <<users, startup>>

\* Mutant: a PRIMARY KEY rejection of the insert is swallowed and answered 200.
VoteInsert_Swallow(r, outcome) ==
    /\ reqs[r].pc = "vote_insert"
    /\ LET id == reqs[r].a
           row == [user_id |-> id, candidate_name |-> reqs[r].b]
           runs == outcome \in {"ok", "lost"}
           inserted == runs /\ VotesKeyFree(id)
       IN  /\ votes' = IF inserted THEN Append(votes, row) ELSE votes
           /\ reqs' = [reqs EXCEPT ![r] = Queried(
                 IF outcome = "ok"
                 THEN Respond(r, 200, MsgVoteOk(reqs[r].b), <<>>)
                 ELSE [Respond(r, 500, MsgVoteErr, <<>>) EXCEPT !.fault = "query"])]
    /\ pool' = PoolQuery(pool)
    /\ UNCHANGED <<users, startup>>

\* INSERT INTO votes; outcomes as for RegisterInsert.  The table has no
\* reference to users, so only the PRIMARY KEY can reject the row.
VoteInsert(r, outcome) ==
    /\ reqs[r].pc = "vote_insert"
    /\ LET id == reqs[r].a
           row == [user_id |-> id, candidate_name |-> reqs[r].b]
           runs == outcome \in {"ok", "lost"}
           inserted == runs /\ VotesKeyFree(id)
       IN  /\ votes' = IF inserted THEN Append(votes, row) ELSE votes
           /\ reqs' = [reqs EXCEPT ![r] = Queried(
                 IF outcome = "ok" /\ inserted
                 THEN Respond(r, 200, MsgVoteOk(reqs[r].b), <<>>)
                 ELSE [Respond(r, 500, MsgVoteErr, <<>>) EXCEPT
                          !.fault = IF outcome = "ok" THEN "constraint" ELSE "query"])]
    /\ pool' = PoolQuery(pool)
    /\ UNCHANGED <<users, startup>>

----------------------------------------------------------------------------
\* GET /results

\* GROUP BY candidate_name with COUNT(*)
VoteCount(c) == Cardinality({i \in 1..Len(votes) : votes[i].candidate_name = c})

Groups == {[candidate_name |-> c, vote_count |-> VoteCount(c)] :
              c \in {votes[i].candidate_name : i \in 1..Len(votes)}}

\* Mutant: the query without its ORDER BY clause.
OrderedGroups_NoOrderBy ==
    {rows \in [1..Cardinality(Groups) -> Groups] :
        \A i, j \in DOMAIN rows : i # j => rows[i] # rows[j]}

\* ORDER BY vote_count DESC: every arrangement of the groups with the counts
\* not increasing; the order among equal counts is the database's choice.
OrderedGroups ==
    {rows \in [1..Cardinality(Groups) -> Groups] :
        /\ \A i, j \in DOMAIN rows : i # j => rows[i] # rows[j]
        /\ \A i, j \in DOMAIN rows : i < j => rows[i].vote_count >= rows[j].vote_count}

\* COUNT(*) is a bigint, which the pg client hands over as its decimal text.
Int8Text(n) == ToString(n)

\* result.rows as the handler gets them.
ResultRows ==
    {[i \in DOMAIN rows |-> [candidate_name |-> rows[i].candidate_name,
                             vote_count |-> Int8Text(rows[i].vote_count)]] :
        rows \in OrderedGroups}

ResultsStart(r) ==
    /\ Arrives(r)
    /\ reqs' = [reqs EXCEPT ![r] =
          [Arrived(r, "results", "", "") EXCEPT !.pc = "results_query"]]
    /\ UNCHANGED <<users, votes, startup, pool>>

\* Mutant: the handler clears the table once it has read the counts.
ResultsQuery_Clears(r, ok, rows) ==
    /\ reqs[r].pc = "results_query"
    /\ reqs' = [reqs EXCEPT ![r] = Queried(
          IF ~ok
          THEN [Respond(r, 500, MsgResultsErr, <<>>) EXCEPT !.fault = "query"]
          ELSE Respond(r, 200, NoMsg, rows))]
    /\ votes' = IF ok THEN <<>> ELSE votes
    /\ pool' = PoolQuery(pool)
    /\ UNCHANGED <<users, startup>>

ResultsQuery(r, ok, rows) ==
    /\ reqs[r].pc = "results_query"
    /\ reqs' = [reqs EXCEPT ![r] = Queried(
          IF ~ok
          THEN [Respond(r, 500, MsgResultsErr, <<>>) EXCEPT !.fault = "query"]
          ELSE Respond(r, 200, NoMsg, rows))]
    /\ pool' = PoolQuery(pool)
    /\ UNCHANGED <<users, votes, startup>>

----------------------------------------------------------------------------
InsertOutcomes == {"ok", "fail", "lost"}

\* The requests served by one running process.
Next ==
    \/ \E r \in Reqs, id \in NationalIds, pw \in Passwords : RegisterStart(r, id, pw)
    \/ \E r \in Reqs, ok \in BOOLEAN : RegisterCheck(r, ok)
    \/ \E r \in Reqs : RegisterHash(r)
    \/ \E r \in Reqs, o \in InsertOutcomes : RegisterInsert(r, o)
    \/ \E r \in Reqs, id \in NationalIds, pw \in Passwords : LoginStart(r, id, pw)
    \/ \E r \in Reqs, ok \in BOOLEAN : LoginFind(r, ok)
    \/ \E r \in Reqs : LoginCompare(r)
    \/ \E r \in Reqs, ok \in BOOLEAN : LoginVoteCheck(r, ok)
    \/ \E r \in Reqs, id \in NationalIds, c \in CandidateNames : VoteStart(r, id, c)
    \/ \E r \in Reqs, ok \in BOOLEAN : VoteCheck(r, ok)
    \/ \E r \in Reqs, o \in InsertOutcomes : VoteInsert(r, o)
    \/ \E r \in Reqs : ResultsStart(r)
    \/ \E r \in Reqs, ok \in BOOLEAN, rows \in ResultRows : ResultsQuery(r, ok, rows)

Spec == Init /\ [][Next]_vars

\* The requests together with the start and the restarts of the process.
NextLife ==
    \/ \E ok \in BOOLEAN : StartupConnect(ok)
    \/ Restart
    \/ Next

SpecLife == InitLife /\ [][NextLife]_vars

----------------------------------------------------------------------------
\* GET /results over the ledgers the votes table can hold

\* Number of rows of the ledgers.
MaxLedger == 5

\* Number of /results requests made on a ledger.
MaxTally == 2

TallyReqs == {r \in Reqs : r <= MaxTally}

LedgerCandidates == {"A", "B", "C"}

\* The rows of n voters, in the order of their admission: one row per
\* voter (PRIMARY KEY), any candidate each.
Ledgers ==
    UNION {{[i \in 1..n |-> [user_id |-> "id" \o ToString(i), candidate_name |-> c[i]]] :
               c \in [1..n -> LedgerCandidates]} : n \in 0..MaxLedger}

InitTally ==
    /\ users = <<>>
    /\ votes \in Ledgers
    /\ startup = "connected"
    /\ pool = Acquire(0)
    /\ reqs = [r \in Reqs |-> NoReq]

NextTally ==
    \/ \E r \in TallyReqs : ResultsStart(r)
    \/ \E r \in TallyReqs, ok \in BOOLEAN, rows \in ResultRows : ResultsQuery(r, ok, rows)

SpecTally == InitTally /\ [][NextTally]_vars

----------------------------------------------------------------------------
\* Properties

Ids == {id \in NationalIds : ~Falsy(id)}

\* The answered and unanswered requests of one operation for one identity
\* that passed the handler's validation.
Calls(kind, id) ==
    {r \in Reqs : reqs[r].kind = kind /\ reqs[r].a = id /\ ~Falsy(reqs[r].b)}

Answered(r) == reqs[r].pc = "done"

\* No query of request r was rejected by a failure of the storage.
NoStorageFault(r) == reqs[r].fault # "query"

VoteRows(id) == Len(SelectVotes(id))
UserRows(id) == Len(SelectUsers(id))

\* C1: in every reachable state the votes table holds at most one row per
\* voter identity.
C1_OneVotePerVoter == \A id \in Ids : VoteRows(id) <= 1

\* A second /vote for an identity got as far as the insert and was rejected
\* there, the identity's row being in the table.
C1_Witness ==
    \E r \in Reqs : /\ reqs[r].kind = "vote" /\ Answered(r)
                    /\ reqs[r].fault = "constraint"
                    /\ VoteRows(reqs[r].a) = 1

\* C2: when two or more /vote calls for one identity, all with non-empty
\* fields, have all been answered and no storage fault hit any of them,
\* exactly one was answered 200 and the table holds exactly one row for the
\* identity.
C2_ExactlyOneSuccess ==
    \A id \in Ids :
        LET V == Calls("vote", id) IN
        (/\ Cardinality(V) >= 2
         /\ \A r \in V : Answered(r) /\ NoStorageFault(r))
        => /\ Cardinality({r \in V : reqs[r].status = 200}) = 1
           /\ VoteRows(id) = 1

\* Two /vote calls for one identity overlapped (both ran their check before
\* either insert), with different candidates, and both were answered.
C2_Witness ==
    \E r1, r2 \in Reqs :
        /\ r1 # r2
        /\ reqs[r1].kind = "vote" /\ reqs[r2].kind = "vote"
        /\ reqs[r1].a = reqs[r2].a /\ reqs[r1].b # reqs[r2].b
        /\ Answered(r1) /\ Answered(r2)
        /\ reqs[r1].status = 200
        /\ reqs[r2].nrows = 0 /\ reqs[r2].fault = "constraint"

\* C3: every /vote call with non-empty fields that was answered, that did
\* not succeed and that no storage fault hit was answered 409, never 500.
C3_LoserGets409 ==
    \A r \in Reqs :
        (/\ reqs[r].kind = "vote" /\ Answered(r) /\ NoStorageFault(r)
         /\ ~Falsy(reqs[r].a) /\ ~Falsy(reqs[r].b)
         /\ reqs[r].status # 200)
        => reqs[r].status = 409

\* C4: an answered /vote call with status 200 has its row (identity,
\* candidate) in the table, one with status 409 has a row for its identity
\* in the table, and one hit by a storage fault has status 500.
C4_AnswerMatchesLedger ==
    \A r \in Reqs :
        (reqs[r].kind = "vote" /\ Answered(r)) =>
            /\ reqs[r].status = 200 =>
                  [user_id |-> reqs[r].a, candidate_name |-> reqs[r].b] \in Range(votes)
            /\ reqs[r].status = 409 => VoteRows(reqs[r].a) > 0
            /\ ~NoStorageFault(r) => reqs[r].status = 500

\* One /vote was answered 200, one 409 and one was hit by a storage fault.
C4_Witness ==
    \E r1, r2, r3 \in Reqs :
        /\ reqs[r1].kind = "vote" /\ reqs[r1].status = 200
        /\ reqs[r2].kind = "vote" /\ reqs[r2].status = 409
        /\ reqs[r3].kind = "vote" /\ Answered(r3) /\ ~NoStorageFault(r3)

\* C5: every row of votes has the identity of a row of users.
C5_VoteRefersToVoter ==
    \A i \in 1..Len(votes) : UserRows(votes[i].user_id) > 0

\* C6: a /vote answered 200 for an identity comes after a /login answered
\* 200 for that identity.
C6_VoteAfterLogin ==
    \A r \in Reqs :
        (reqs[r].kind = "vote" /\ reqs[r].status = 200) =>
            \E l \in Reqs : /\ reqs[l].kind = "login" /\ reqs[l].status = 200
                            /\ reqs[l].a = reqs[r].a

\* A /login that was answered because its SELECT on users returned no row.
NotFound(r) ==
    reqs[r].kind = "login" /\ Answered(r) /\ reqs[r].nrows = 0

\* A /login that was answered because bcrypt.compare returned false.
Mismatch(r) ==
    /\ reqs[r].kind = "login" /\ Answered(r) /\ reqs[r].nrows > 0
    /\ ~BcryptCompare(reqs[r].b, reqs[r].hash)

\* The one answer to invalid credentials.
InvalidCredentials ==
    [status |-> 401, message |-> <<"Invalid National ID or password.">>, body |-> <<>>]

Answer(r) ==
    [status |-> reqs[r].status, message |-> reqs[r].message, body |-> reqs[r].body]

\* C7: a /login for an identity that is not registered and a /login for a
\* registered identity with a wrong secret get one and the same answer
\* (status 401, the same message, nothing else in the body), in every state
\* of the tables.
C7_UniformInvalidCredentials ==
    \A r \in Reqs : (NotFound(r) \/ Mismatch(r)) => Answer(r) = InvalidCredentials

\* Both cases were answered.
C7_Witness ==
    \E r1, r2 \in Reqs : NotFound(r1) /\ Mismatch(r2)

\* The users table holds a row for request r's identity whose hash the
\* request's secret matches.
CorrectCredentials(r) ==
    \E i \in 1..Len(users) :
        /\ users[i].national_id = reqs[r].a
        /\ BcryptCompare(reqs[r].b, users[i].password_hash)

\* Request r is answered in this step, without a storage fault.
AnsweredNow(r) ==
    reqs[r].pc # "done" /\ reqs'[r].pc = "done" /\ reqs'[r].fault # "query"

RegisterThenRegister(r1, r2) ==
    LET R == Calls("register", reqs[r1].a) IN
    /\ r1 \in R /\ r2 \in R /\ r1 # r2
    /\ ~Falsy(reqs[r1].a)
    /\ \A q \in R \ {r1} : r1 \in reqs[q].pred
    /\ Answered(r1) /\ Answered(r2)
    /\ NoStorageFault(r1) /\ NoStorageFault(r2)

\* C9: Register(I, s1) for an unregistered I, then after its answer
\* Register(I, s2), absent storage faults: the first is answered 201, the
\* second 409, whatever the secrets.
C9_RegisterThenConflict ==
    \A r1, r2 \in Reqs :
        RegisterThenRegister(r1, r2) =>
            /\ reqs[r1].status = 201
            /\ reqs[r2].status = 409 /\ reqs[r2].message = MsgRegistered

\* The sequence happened with two different secrets.
C9_Witness ==
    \E r1, r2 \in Reqs :
        RegisterThenRegister(r1, r2) /\ reqs[r1].b # reqs[r2].b

\* C10: at most one /register per identity is ever answered 201, and the
\* users table holds at most one row per identity.
C10_OneRegistrationPerIdentity ==
    \A id \in Ids :
        /\ Cardinality({r \in Calls("register", id) : reqs[r].status = 201}) <= 1
        /\ UserRows(id) <= 1

\* Two /register calls for one identity overlapped: both found no row, one
\* was answered 201 and the other's insert was rejected by the key.
C10_Witness ==
    \E r1, r2 \in Reqs :
        /\ r1 # r2
        /\ reqs[r1].kind = "register" /\ reqs[r2].kind = "register"
        /\ reqs[r1].a = reqs[r2].a
        /\ reqs[r1].status = 201
        /\ Answered(r2) /\ reqs[r2].nrows = 0 /\ reqs[r2].fault = "constraint"
        /\ UserRows(reqs[r1].a) = 1

\* C11: a /register whose INSERT was rejected because a row for the
\* identity was already in users is answered 409, not 500.
C11_RejectedInsertGets409 ==
    \A r \in Reqs :
        (/\ reqs[r].kind = "register" /\ Answered(r)
         /\ reqs[r].fault = "constraint")
        => reqs[r].status = 409 /\ reqs[r].message = MsgRegistered

\* C12: a row (I, c) of votes stays: after every step of the server,
\* restarts included, the table still holds (I, c) and holds no other row
\* for I.
C12_VoteWriteOnce ==
    [][\A i \in 1..Len(votes) :
          /\ votes[i] \in Range(votes')
          /\ \A j \in 1..Len(votes') :
                votes'[j].user_id = votes[i].user_id => votes'[j] = votes[i]]_vars

\* A row (I, c) is in the table and a later /vote for I with another
\* candidate has been answered.
C12_Witness ==
    \E r \in Reqs, i \in 1..Len(votes) :
        /\ reqs[r].kind = "vote" /\ Answered(r) /\ reqs[r].queries > 0
        /\ reqs[r].a = votes[i].user_id
        /\ reqs[r].b # votes[i].candidate_name

\* The secrets a client can present.
Secrets == {pw \in Passwords : ~Falsy(pw)}

CountOf(text) == CHOOSE n \in 0..Len(votes) + 1 : ToString(n) = text

\* A /results request is answered 200 in this step.
TallyAnswered(r) ==
    /\ reqs[r].pc = "results_query" /\ reqs'[r].pc = "done"
    /\ reqs'[r].status = 200

Sum(rows) ==
    LET S[k \in 0..Len(rows)] ==
            IF k = 0 THEN 0 ELSE S[k - 1] + CountOf(rows[k].vote_count)
    IN  S[Len(rows)]

\* C14: the rows a /results request answers with hold, for the votes table
\* as the query read it, one entry per candidate with at least one vote,
\* each with the number of that candidate's rows as its count, in order of
\* count, highest first; the counts add up to the number of rows.
C14_TallyCounts ==
    [][\A r \in Reqs : TallyAnswered(r) =>
          LET rows == reqs'[r].body
              voted == {votes[i].candidate_name : i \in 1..Len(votes)}
          IN  /\ {rows[i].candidate_name : i \in 1..Len(rows)} = voted
              /\ Len(rows) = Cardinality(voted)
              /\ \A i \in 1..Len(rows) :
                    CountOf(rows[i].vote_count) =
                       Cardinality({k \in 1..Len(votes) :
                           votes[k].candidate_name = rows[i].candidate_name})
              /\ \A i, j \in 1..Len(rows) :
                    i < j => CountOf(rows[i].vote_count) >= CountOf(rows[j].vote_count)
              /\ Sum(rows) = Len(votes)]_vars

\* The ledger holds votes A, A, B, C, A in that order and a /results has
\* been answered with three entries, the first with count 3.
C14_Witness ==
    /\ Len(votes) = 5
    /\ [i \in 1..5 |-> votes[i].candidate_name] = <<"A", "A", "B", "C", "A">>
    /\ \E r \in Reqs :
          /\ reqs[r].kind = "results" /\ reqs[r].status = 200
          /\ Len(reqs[r].body) = 3
          /\ reqs[r].body[1] = [candidate_name |-> "A", vote_count |-> "3"]

\* Alphabetical position of a candidate label.
LabelRank(c) == CHOOSE i \in 1..3 : <<"A", "B", "C">>[i] = c

\* C15: in the rows of every answered /results, candidates with equal
\* counts come in ascending order of their labels, and two /results
\* answered from the same ledger contents carry the same rows.
C15_TieBreakByLabel ==
    /\ \A r \in Reqs :
          (reqs[r].kind = "results" /\ reqs[r].status = 200) =>
             \A i, j \in 1..Len(reqs[r].body) :
                (i < j /\ reqs[r].body[i].vote_count = reqs[r].body[j].vote_count)
                => LabelRank(reqs[r].body[i].candidate_name)
                     < LabelRank(reqs[r].body[j].candidate_name)
    /\ \A r1, r2 \in Reqs :
          (/\ reqs[r1].kind = "results" /\ reqs[r1].status = 200
           /\ reqs[r2].kind = "results" /\ reqs[r2].status = 200)
          => reqs[r1].body = reqs[r2].body

\* A required field that is missing or empty.
Blank(v) == v \in {"", Undefined}

\* Request r arrives in this step.
ArrivesNow(r) == reqs[r].pc = "idle" /\ reqs'[r].pc # "idle"

\* C16: a /register, /login or /vote that arrives with a missing or empty
\* required field is answered 400 at once, has made no storage query, and
\* users, votes and the pool are as before.
C16_BlankFieldGets400 ==
    [][\A r \in Reqs :
          (/\ ArrivesNow(r)
           /\ reqs'[r].kind \in {"register", "login", "vote"}
           /\ (Blank(reqs'[r].a) \/ Blank(reqs'[r].b)))
          => /\ reqs'[r].pc = "done" /\ reqs'[r].status = 400
             /\ reqs'[r].message =
                   IF reqs'[r].kind = "vote" THEN MsgVoteRequired ELSE MsgRequired
             /\ reqs'[r].queries = 0
             /\ users' = users /\ votes' = votes /\ pool' = pool]_vars

\* A /register with an empty identity, a /login without secret and a /vote
\* without candidate have been answered 400, the tables holding no row.
C16_Witness ==
    \E r1, r2, r3 \in Reqs :
        /\ reqs[r1].kind = "register" /\ reqs[r1].a = "" /\ reqs[r1].status = 400
        /\ reqs[r2].kind = "login" /\ reqs[r2].b = Undefined /\ reqs[r2].status = 400
        /\ reqs[r3].kind = "vote" /\ reqs[r3].b = Undefined /\ reqs[r3].status = 400
        /\ users = <<>> /\ votes = <<>>

\* C18: no step of a /login or /results handler changes users or votes.
C18_ReadOnly ==
    [][\A r \in Reqs :
          (reqs'[r] # reqs[r] /\ reqs'[r].kind \in {"login", "results"})
          => users' = users /\ votes' = votes]_vars

\* A /login and a /results have been answered from tables that hold rows.
C18_Witness ==
    /\ Len(users) > 0
    /\ \E r \in Reqs : reqs[r].kind = "login" /\ reqs[r].status = 200
    /\ \E r \in Reqs : reqs[r].kind = "results" /\ reqs[r].status = 200

\* The row request q inserts.
UserRowOf(q) == [national_id |-> q.a, password_hash |-> q.hash]
VoteRowOf(q) == [user_id |-> q.a, candidate_name |-> q.b]

\* C19 as claimed: a step that answers a /register with 201 appends that
\* request's row to users and leaves votes, a step that answers a /vote with
\* 200 appends that request's row to votes and leaves users, and every other
\* step of a request (the steps that answer 400, 401, 403, 409 or 500 among
\* them) leaves both tables as they were.
C19_ChangeOnlyOnSuccess ==
    [][\A r \in Reqs : reqs'[r] # reqs[r] =>
          LET q == reqs'[r] IN
          IF q.kind = "register" /\ q.status = 201 /\ reqs[r].status = 0
          THEN users' = Append(users, UserRowOf(q)) /\ votes' = votes
          ELSE IF q.kind = "vote" /\ q.status = 200 /\ reqs[r].status = 0
          THEN votes' = Append(votes, VoteRowOf(q)) /\ users' = users
          ELSE users' = users /\ votes' = votes]_vars

\* The storage ran request r's INSERT in this step and then failed, so
\* that the request is answered 500.
InsertLost(r) ==
    /\ reqs[r].pc \in {"reg_insert", "vote_insert"}
    /\ reqs'[r].status = 500 /\ reqs'[r].fault = "query"

\* C19 (amended): as claimed, except that a step that answers 500 after a
\* storage fault hit the request's INSERT may have appended that request's
\* one row to its table.
C19_ChangeOnlyOnSuccessOrLostInsert ==
    [][\A r \in Reqs : reqs'[r] # reqs[r] =>
          LET q == reqs'[r] IN
          IF q.kind = "register" /\ q.status = 201 /\ reqs[r].status = 0
          THEN users' = Append(users, UserRowOf(q)) /\ votes' = votes
          ELSE IF q.kind = "vote" /\ q.status = 200 /\ reqs[r].status = 0
          THEN votes' = Append(votes, VoteRowOf(q)) /\ users' = users
          ELSE IF InsertLost(r) /\ q.kind = "register"
          THEN users' \in {users, Append(users, UserRowOf(q))} /\ votes' = votes
          ELSE IF InsertLost(r) /\ q.kind = "vote"
          THEN votes' \in {votes, Append(votes, VoteRowOf(q))} /\ users' = users
          ELSE users' = users /\ votes' = votes]_vars

\* A /register was answered 500 and its row is in users, and a /vote was
\* answered 200.
C19_Witness ==
    /\ \E r \in Reqs :
          /\ reqs[r].kind = "register" /\ reqs[r].status = 500
          /\ UserRowOf(reqs[r]) \in Range(users)
    /\ \E r \in Reqs : reqs[r].kind = "vote" /\ reqs[r].status = 200

\* No handler is running.
Quiet == \A r \in Reqs : reqs[r].pc \in {"idle", "done", "aborted"}

\* C17: once the startup connect has resolved and every request that arrived
\* has completed, no client of the pool is checked out.
C17_AllClientsReleased == (startup = "connected" /\ Quiet) => pool = 0

====
